---- MODULE Spec2Model ----
(***************************************************************************)
(* Model of the stream-tester orchestration code:                          *)
(*   - vodTester.Start (internal/app/vodtester/vodtester_app.go): three    *)
(*     phases run under an errgroup whose context derives from vt.Ctx,     *)
(*     plus the goroutine that turns the group's cancellation into         *)
(*     vt.Cancel();                                                        *)
(*   - getClosestSerfNodes (cmd/recordtester/recordtester.go): grouping of *)
(*     serf members by location key, ordering by distance and selection.   *)
(* Specification Spec is the state machine of one Start call; GeoSpec      *)
(* applies getClosestSerfNodes to every input of a bounded set.            *)
(***************************************************************************)
EXTENDS Integers, Sequences, FiniteSets, TLC

VARIABLES
    gctx,          \* the parent context given to NewVodTester is done
    vtCtx,         \* vt.Ctx is done
    egCtx,         \* egCtx (errgroup.WithContext(vt.Ctx)) is done
    mainPc,        \* position of the goroutine that executes Start
    phasePc,       \* per phase: 0 not started, i the i-th step is next, PhaseDone returned
    phaseErr,      \* per phase: the error the phase function returned
    egErr,         \* the error kept by the errgroup (errOnce)
    watcherPc,     \* position of the goroutine `<-egCtx.Done(); vt.Cancel()`
    startRet,      \* the value Start returns
    completed,     \* phases in the order in which their functions returned
    ctxAtReturn,   \* per phase: vt.Ctx was done when the phase returned
    extCancels,    \* number of calls of Cancel() made by the owner of the tester
    serfMembers,   \* getClosestSerfNodes: the candidate list
    serfNil,       \* getClosestSerfNodes: the candidate list is the nil slice
    selectNodeCount, \* getClosestSerfNodes: the requested count
    origin,        \* getClosestSerfNodes: <<lat, long>> of this instance
    geoPc,         \* "idle", "call" or "done"
    nodeDistances, \* the sorted groups built by the call
    index,         \* the number of groups the selection loop included
    returnMembers, \* the list the call returned
    distArgs,      \* getDistance: <<lat1, lon1, lat2, lon2>> in degrees
    distPc,        \* "idle", "call" or "done"
    distance,      \* the value getDistance returned
    pbPc,          \* checkPlayback: "idle", the next call to make, or "done"
    pbCtxDone,     \* vt.Ctx is cancelled, as checkPlayback's CheckStats sees it
    pbDuration,    \* asset.VideoSpec.DurationSec as GetAsset reported it
    pbSources,     \* pinfo.Meta.Source as GetPlaybackInfo reported it
    pbUrl,         \* the url handed to m3u8.CheckStats
    pbPolls,       \* polls of the manifest made by CheckStats
    pbSeen,        \* what those polls observed
    pbCalls,       \* the remote calls checkPlayback made
    pbErr,         \* the error checkPlayback returned ("none" before it returns)
    mMode,         \* main: "idle", "single" or "continuous"
    mEnabled,      \* the continuous testers enabled by -test-live, -test-vod, ...
    mTemp,         \* fileName # *fileArg: GetFile made a local copy
    mFileExists,   \* the file named fileName exists
    mainCtx,       \* main's gctx is cancelled
    mEgCtx,        \* the continuous testers' errgroup context is cancelled
    mEgErr,        \* the errgroup's first error
    mTesterErr,    \* what each continuous tester's Start returned
    mSigPc,        \* the signal goroutine: "wait", "cleanup" or "done"
    mPc,           \* main: "idle", "run", "exit" or "exited"
    mExitArgs,     \* <<exitCode, err>> handed to exit()
    mExitCode,     \* the code given to os.Exit (-1 before)
    mErrorPrinted, \* exit() printed "Error: ..."
    mFailureLogged,\* exit() logged "Record test failed"
    suCfg,         \* main's startup: which parameters are given and valid
    suPc,          \* the position of main in StartupSteps
    suCalls,       \* the calls main has made so far
    suExit,        \* the code the startup exited with (-1: it has not)
    lgTimeout,     \* ensureLoggedIn: the timeout, in ticks
    lgNow,         \* the time since ensureLoggedIn was called, in ticks
    lgPc,          \* "idle", "login", "select", "returned" or "fatal"
    lgLog,         \* the Login attempts made: start, end and outcome of each
    plTask,        \* WaitTaskProcessing: "stuck" (pending for ever) or "live"
    plInterval,    \* taskPollDuration, in ticks
    plNow,         \* the time since the wait began, in ticks, up to MaxClock
    plCtxDone,     \* vt.Ctx is cancelled
    plPc,          \* "idle", "sleep", "poll" or "done"
    plErr,         \* the error the wait returned ("none" before it returns)
    smN,           \* -sim: the number of testers to launch
    smLaunched,    \* the testers launched so far (the loop's i)
    smArrays,      \* the backing arrays allocated for eses: capacity, elements
    smCur,         \* the array the variable eses points to (0: nil)
    smG,           \* each goroutine: pc, what Start returned, the array loaded
    smEs,          \* the shared variable es
    smErr,         \* the shared variable err
    smPc,          \* main: "idle", "launch", "exit" or "exited"
    smSucc,        \* the count of zeros main found in eses
    smExitCode,    \* the code given to os.Exit (-1 before)
    fPc,           \* upload phases with their files: the call each is at
    fCtxDone,      \* vt.Ctx is cancelled
    fFile,         \* the file each got from os.Open: "none", "open", "closed"
    fReturned,     \* whether each has returned
    fErr           \* the cause of the error each returned ("nil": none)

vodVars == <<gctx, vtCtx, egCtx, mainPc, phasePc, phaseErr, egErr, watcherPc,
             startRet, completed, ctxAtReturn, extCancels>>
geoVars == <<serfMembers, serfNil, selectNodeCount, origin, geoPc, nodeDistances, index,
             returnMembers>>
distVars == <<distArgs, distPc, distance>>
playVars == <<pbPc, pbCtxDone, pbDuration, pbSources, pbUrl, pbPolls, pbSeen,
              pbCalls, pbErr>>
mainVars == <<mMode, mEnabled, mTemp, mFileExists, mainCtx, mEgCtx, mEgErr,
              mTesterErr, mSigPc, mPc, mExitArgs, mExitCode, mErrorPrinted,
              mFailureLogged>>
startVars == <<suCfg, suPc, suCalls, suExit>>
loginVars == <<lgTimeout, lgNow, lgPc, lgLog>>
pollVars == <<plTask, plInterval, plNow, plCtxDone, plPc, plErr>>
simVars == <<smN, smLaunched, smArrays, smCur, smG, smEs, smErr, smPc, smSucc,
             smExitCode>>
fileVars == <<fPc, fCtxDone, fFile, fReturned, fErr>>
moreVars == <<startVars, loginVars, pollVars, simVars, fileVars>>
baseVars == <<vodVars, geoVars, distVars, playVars, mainVars>>
exceptStart == <<baseVars, loginVars, pollVars, simVars, fileVars>>
exceptLogin == <<baseVars, startVars, pollVars, simVars, fileVars>>
exceptPoll == <<baseVars, startVars, loginVars, simVars, fileVars>>
exceptSim == <<baseVars, startVars, loginVars, pollVars, fileVars>>
exceptFile == <<baseVars, startVars, loginVars, pollVars, simVars>>
restVars == <<distVars, playVars, mainVars, moreVars>>
vars == <<vodVars, geoVars, restVars>>

(***************************************************************************)
(* vodTester.Start                                                         *)
(***************************************************************************)

\* The three functions given to eg.Go, in the order of the source.
Phases == <<"url", "direct", "resumable">>
PhaseSet == {Phases[i] : i \in 1..Len(Phases)}

\* The calls as they would be if the upload phases checked playback before
\* waiting for the task.
PhaseStepsCheckFirst ==
    [url       |-> <<"UploadViaURL", "WaitTaskProcessing", "checkPlayback",
                     "ExportAsset", "WaitTaskProcessing">>,
     direct    |-> <<"RequestUpload", "Open", "UploadAsset",
                     "checkPlayback", "WaitTaskProcessing">>,
     resumable |-> <<"RequestUpload", "Open", "ResumableUpload",
                     "checkPlayback", "WaitTaskProcessing">>]

\* The calls each phase makes, in program order.
PhaseSteps ==
    [url       |-> <<"UploadViaURL", "WaitTaskProcessing", "checkPlayback",
                     "ExportAsset", "WaitTaskProcessing">>,
     direct    |-> <<"RequestUpload", "Open", "UploadAsset",
                     "WaitTaskProcessing", "checkPlayback">>,
     resumable |-> <<"RequestUpload", "Open", "ResumableUpload",
                     "WaitTaskProcessing", "checkPlayback">>]

\* The position of a phase that has returned.
PhaseDone == Len(PhaseSteps.url) + 1

\* Bound on the calls of Cancel() the owner makes during one Start.
MaxCancelCalls == 1

\* The calls as they would be if the resumable upload were given vt.Ctx too.
CtxAwareAll == {"UploadAsset", "ResumableUpload", "checkPlayback"}

\* The calls that are given vt.Ctx.
CtxAware == {"UploadAsset", "checkPlayback"}

Nil == [phase |-> "none", cause |-> "nil"]

\* fmt.Errorf("...: %w", err): the phase's error wraps the cause.
PhaseError(p, cause) == [phase |-> p, cause |-> cause]

\* The errors of TesterApp.WaitTaskProcessing: the task failed or could not be
\* fetched, the wait timed out, or vt.Ctx was done while waiting.
WaitTaskProcessingErrors(ctxDone) ==
    {"error", "deadline"} \cup (IF ctxDone THEN {"canceled"} ELSE {})

\* What a call may return: nil, or an error; a call that is given vt.Ctx can
\* return context.Canceled once the context is done.
Outcomes(kind, ctxDone) ==
    IF kind = "WaitTaskProcessing"
    THEN {"nil"} \cup WaitTaskProcessingErrors(ctxDone)
    ELSE {"nil", "error"}
           \cup (IF kind \in CtxAware /\ ctxDone THEN {"canceled"} ELSE {})

\* The state after NewVodTester.
VodInit ==
    /\ gctx = FALSE
    /\ vtCtx = FALSE
    /\ egCtx = FALSE
    /\ mainPc = "WithContext"
    /\ phasePc = [p \in PhaseSet |-> 0]
    /\ phaseErr = [p \in PhaseSet |-> Nil]
    /\ egErr = Nil
    /\ watcherPc = "none"
    /\ startRet = Nil
    /\ completed = <<>>
    /\ ctxAtReturn = [p \in PhaseSet |-> FALSE]
    /\ extCancels = 0

\* No call of getClosestSerfNodes is made.
GeoIdle ==
    /\ serfMembers = <<>>
    /\ serfNil = TRUE
    /\ selectNodeCount = 0
    /\ origin = <<0, 0>>
    /\ geoPc = "idle"
    /\ nodeDistances = <<>>
    /\ index = 0
    /\ returnMembers = <<>>

\* No call of getDistance is made.
DistIdle ==
    /\ distArgs = <<0, 0, 0, 0>>
    /\ distPc = "idle"
    /\ distance = 0

\* No call of checkPlayback is made.
PlaybackIdle ==
    /\ pbPc = "idle"
    /\ pbCtxDone = FALSE
    /\ pbDuration = 0
    /\ pbSources = <<>>
    /\ pbUrl = ""
    /\ pbPolls = 0
    /\ pbSeen = {}
    /\ pbCalls = {}
    /\ pbErr = "none"

\* The continuous testers main can start.
Testers == {"live", "vod", "transcode"}

\* A continuous tester that is not enabled, and one that has not returned.
Off == [phase |-> "none", cause |-> "off"]
Running == [phase |-> "none", cause |-> "running"]

\* The process of recordtester is not started.
MainIdle ==
    /\ mMode = "idle"
    /\ mEnabled = {}
    /\ mTemp = FALSE
    /\ mFileExists = TRUE
    /\ mainCtx = FALSE
    /\ mEgCtx = FALSE
    /\ mEgErr = Nil
    /\ mTesterErr = [t \in Testers |-> Off]
    /\ mSigPc = "wait"
    /\ mPc = "idle"
    /\ mExitArgs = <<0, Nil>>
    /\ mExitCode = -1
    /\ mErrorPrinted = FALSE
    /\ mFailureLogged = FALSE

\* main's startup is not run.
StartupIdle ==
    /\ suCfg = [file |-> TRUE, pause |-> TRUE, testDur |-> TRUE, apiToken |-> TRUE,
                serf |-> "off"]
    /\ suPc = 0
    /\ suCalls = {}
    /\ suExit = -1

\* ensureLoggedIn is not called.
LoginIdle ==
    /\ lgTimeout = 0
    /\ lgNow = 0
    /\ lgPc = "idle"
    /\ lgLog = <<>>

\* No task is waited for.
PollIdle ==
    /\ plTask = "live"
    /\ plInterval = 1
    /\ plNow = 0
    /\ plCtxDone = FALSE
    /\ plPc = "idle"
    /\ plErr = "none"

\* The process is not run with -sim.
SimIdle ==
    /\ smN = 0
    /\ smLaunched = 0
    /\ smArrays = <<>>
    /\ smCur = 0
    /\ smG = <<>>
    /\ smEs = 0
    /\ smErr = Nil
    /\ smPc = "idle"
    /\ smSucc = 0
    /\ smExitCode = -1

\* The phases that open the file to upload.
UploadPhases == {"direct", "resumable"}

\* No phase is followed with its file.
FileIdle ==
    /\ fPc = [p \in UploadPhases |-> 0]
    /\ fCtxDone = FALSE
    /\ fFile = [p \in UploadPhases |-> "none"]
    /\ fReturned = [p \in UploadPhases |-> FALSE]
    /\ fErr = [p \in UploadPhases |-> "nil"]

MoreIdle == StartupIdle /\ LoginIdle /\ PollIdle /\ SimIdle /\ FileIdle

RestIdle == DistIdle /\ PlaybackIdle /\ MainIdle /\ MoreIdle

Init == VodInit /\ GeoIdle /\ RestIdle

\* CancelFunc as it would be if the tester had kept the parent's cancel function.
CancelFuncUpward ==
    /\ vtCtx' = TRUE
    /\ egCtx' = TRUE
    /\ gctx' = TRUE

\* cancel of context.WithCancel(gctx): vt.Ctx is done, and so is every context
\* derived from it; the parent is not touched.
CancelFunc ==
    /\ vtCtx' = TRUE
    /\ egCtx' = TRUE
    /\ UNCHANGED gctx

\* TesterApp.Cancel
Cancel == CancelFunc

\* gcancel(): the parent context is cancelled from outside the tester.
ParentCancel ==
    /\ ~gctx
    /\ gctx' = TRUE
    /\ vtCtx' = TRUE
    /\ egCtx' = TRUE
    /\ UNCHANGED <<mainPc, phasePc, phaseErr, egErr, watcherPc, startRet,
                   completed, ctxAtReturn>>
    /\ UNCHANGED <<extCancels, geoVars, restVars>>

\* IVodTester.Cancel() called by the owner of the tester.
ExternalCancel ==
    /\ extCancels < MaxCancelCalls
    /\ extCancels' = extCancels + 1
    /\ Cancel
    /\ UNCHANGED <<mainPc, phasePc, phaseErr, egErr, watcherPc, startRet,
                   completed, ctxAtReturn>>
    /\ UNCHANGED <<geoVars, restVars>>

\* eg, egCtx := errgroup.WithContext(vt.Ctx)
StartWithContext ==
    /\ mainPc = "WithContext"
    /\ egCtx' = vtCtx
    /\ mainPc' = "Go1"
    /\ UNCHANGED <<gctx, vtCtx, phasePc, phaseErr, egErr, watcherPc, startRet,
                   completed, ctxAtReturn>>
    /\ UNCHANGED <<extCancels, geoVars, restVars>>

\* eg.Go(func() error {...}) for the i-th phase
StartGo(i) ==
    /\ mainPc = "Go" \o ToString(i)
    /\ phasePc' = [phasePc EXCEPT ![Phases[i]] = 1]
    /\ mainPc' = IF i < Len(Phases) THEN "Go" \o ToString(i + 1) ELSE "GoWatcher"
    /\ UNCHANGED <<gctx, vtCtx, egCtx, phaseErr, egErr, watcherPc, startRet,
                   completed, ctxAtReturn>>
    /\ UNCHANGED <<extCancels, geoVars, restVars>>

\* go func() { <-egCtx.Done(); vt.Cancel() }()
StartGoWatcher ==
    /\ mainPc = "GoWatcher"
    /\ watcherPc' = "Done"
    /\ mainPc' = "Wait"
    /\ UNCHANGED <<gctx, vtCtx, egCtx, phasePc, phaseErr, egErr, startRet,
                   completed, ctxAtReturn>>
    /\ UNCHANGED <<extCancels, geoVars, restVars>>

\* <-egCtx.Done()
WatcherDone ==
    /\ watcherPc = "Done"
    /\ egCtx
    /\ watcherPc' = "Cancel"
    /\ UNCHANGED <<gctx, vtCtx, egCtx, mainPc, phasePc, phaseErr, egErr, startRet,
                   completed, ctxAtReturn>>
    /\ UNCHANGED <<extCancels, geoVars, restVars>>

\* vt.Cancel() of the watcher goroutine, which then ends
WatcherCancel ==
    /\ watcherPc = "Cancel"
    /\ Cancel
    /\ watcherPc' = "finished"
    /\ UNCHANGED <<mainPc, phasePc, phaseErr, egErr, startRet,
                   completed, ctxAtReturn>>
    /\ UNCHANGED <<extCancels, geoVars, restVars>>

\* The group as it would be if it kept the last error instead of the first.
ErrLast(err) ==
    /\ egErr' = err
    /\ egCtx' = TRUE

\* errgroup: g.errOnce.Do(func() { g.err = err; g.cancel() })
ErrOnce(err) ==
    IF egErr = Nil
    THEN /\ egErr' = err
         /\ egCtx' = TRUE
    ELSE UNCHANGED <<egErr, egCtx>>

\* The goroutine of eg.Go as it would be if the error of the last phase were
\* only logged.
GoReturnSwallow(p, err) ==
    /\ phasePc' = [phasePc EXCEPT ![p] = PhaseDone]
    /\ phaseErr' = [phaseErr EXCEPT ![p] = err]
    /\ completed' = Append(completed, p)
    /\ ctxAtReturn' = [ctxAtReturn EXCEPT ![p] = vtCtx]
    /\ IF err # Nil /\ p # "resumable" THEN ErrOnce(err) ELSE UNCHANGED <<egErr, egCtx>>

\* The goroutine of eg.Go: the phase function returned err.
GoReturn(p, err) ==
    /\ phasePc' = [phasePc EXCEPT ![p] = PhaseDone]
    /\ phaseErr' = [phaseErr EXCEPT ![p] = err]
    /\ completed' = Append(completed, p)
    /\ ctxAtReturn' = [ctxAtReturn EXCEPT ![p] = vtCtx]
    /\ IF err # Nil THEN ErrOnce(err) ELSE UNCHANGED <<egErr, egCtx>>

\* A call of the phase returned nil and the phase goes on to its next call.
PhaseCall(p) ==
    /\ phasePc[p] \in 1..(Len(PhaseSteps[p]) - 1)
    /\ "nil" \in Outcomes(PhaseSteps[p][phasePc[p]], vtCtx)
    /\ phasePc' = [phasePc EXCEPT ![p] = @ + 1]
    /\ UNCHANGED <<gctx, vtCtx, egCtx, mainPc, phaseErr, egErr, watcherPc, startRet,
                   completed, ctxAtReturn>>
    /\ UNCHANGED <<extCancels, geoVars, restVars>>

\* A failed call as it would be if the phase logged the error and went on.
PhaseFailGoesOn(p) ==
    /\ phasePc[p] \in 1..(Len(PhaseSteps[p]) - 1)
    /\ \E cause \in Outcomes(PhaseSteps[p][phasePc[p]], vtCtx) \ {"nil"} :
          /\ phaseErr' = [phaseErr EXCEPT ![p] = PhaseError(p, cause)]
          /\ phasePc' = [phasePc EXCEPT ![p] = @ + 1]
    /\ UNCHANGED <<gctx, vtCtx, egCtx, mainPc, egErr, watcherPc, startRet,
                   completed, ctxAtReturn>>
    /\ UNCHANGED <<extCancels, geoVars, restVars>>

\* A call of the phase returned an error: the phase returns it, wrapped.
PhaseFail(p) ==
    /\ phasePc[p] \in 1..Len(PhaseSteps[p])
    /\ \E cause \in Outcomes(PhaseSteps[p][phasePc[p]], vtCtx) \ {"nil"} :
          GoReturn(p, PhaseError(p, cause))
    /\ UNCHANGED <<gctx, vtCtx, mainPc, watcherPc, startRet>>
    /\ UNCHANGED <<extCancels, geoVars, restVars>>

\* The last call of the phase returned nil: the phase returns nil.
PhaseSucceed(p) ==
    /\ phasePc[p] = Len(PhaseSteps[p])
    /\ "nil" \in Outcomes(PhaseSteps[p][phasePc[p]], vtCtx)
    /\ GoReturn(p, Nil)
    /\ UNCHANGED <<gctx, vtCtx, mainPc, watcherPc, startRet>>
    /\ UNCHANGED <<extCancels, geoVars, restVars>>

\* Wait as it would be if it returned at the first error instead of joining.
StartWaitEarly ==
    /\ mainPc = "Wait"
    /\ egErr # Nil \/ \A p \in PhaseSet : phasePc[p] = PhaseDone
    /\ egCtx' = TRUE
    /\ startRet' = egErr
    /\ mainPc' = "Defer"
    /\ UNCHANGED <<gctx, vtCtx, phasePc, phaseErr, egErr, watcherPc,
                   completed, ctxAtReturn>>
    /\ UNCHANGED <<extCancels, geoVars, restVars>>

\* eg.Wait(): g.wg.Wait(); g.cancel(); return g.err
StartWait ==
    /\ mainPc = "Wait"
    /\ \A p \in PhaseSet : phasePc[p] = PhaseDone
    /\ egCtx' = TRUE
    /\ startRet' = egErr
    /\ mainPc' = "Defer"
    /\ UNCHANGED <<gctx, vtCtx, phasePc, phaseErr, egErr, watcherPc,
                   completed, ctxAtReturn>>
    /\ UNCHANGED <<extCancels, geoVars, restVars>>

\* Start as it would be without the deferred Cancel.
StartDeferNoCancel ==
    /\ mainPc = "Defer"
    /\ mainPc' = "Returned"
    /\ UNCHANGED <<gctx, vtCtx, egCtx, phasePc, phaseErr, egErr, watcherPc, startRet,
                   completed, ctxAtReturn>>
    /\ UNCHANGED <<extCancels, geoVars, restVars>>

\* defer vt.Cancel(), then Start has returned
StartDefer ==
    /\ mainPc = "Defer"
    /\ Cancel
    /\ mainPc' = "Returned"
    /\ UNCHANGED <<phasePc, phaseErr, egErr, watcherPc, startRet,
                   completed, ctxAtReturn>>
    /\ UNCHANGED <<extCancels, geoVars, restVars>>

Next ==
    \/ ParentCancel
    \/ ExternalCancel
    \/ StartWithContext
    \/ \E i \in 1..Len(Phases) : StartGo(i)
    \/ StartGoWatcher
    \/ WatcherDone
    \/ WatcherCancel
    \/ \E p \in PhaseSet : PhaseCall(p)
    \/ \E p \in PhaseSet : PhaseFail(p)
    \/ \E p \in PhaseSet : PhaseSucceed(p)
    \/ StartWait
    \/ StartDefer

Spec == Init /\ [][Next]_vars

\* Start, once called, runs on, and every call a phase makes returns.
FairSpec ==
    /\ Spec
    /\ WF_vars(StartWithContext \/ (\E i \in 1..Len(Phases) : StartGo(i))
                  \/ StartGoWatcher \/ StartWait \/ StartDefer)
    /\ \A p \in PhaseSet : WF_vars(PhaseCall(p) \/ PhaseFail(p) \/ PhaseSucceed(p))


(***************************************************************************)
(* getClosestSerfNodes                                                     *)
(***************************************************************************)

\* Bounds of the inputs.
MaxMembers == 3
MaxCount == 3

\* Values of the latitude and longitude tags of a member.  "0" and "0.0" are
\* two spellings of the same number; "x" is not a number.
LatTags == {"0", "0.0", "60", "x"}
LonTags == {"0", "30", "90"}

\* Origins (--latitude, --longitude), in degrees.
Origins == {<<0, 0>>, <<60, 0>>}

\* strconv.ParseFloat(s, 64) with the error dropped: the value in degrees, 0
\* when s is not a number.
ParseFloat(s) ==
    CASE s = "0"   -> 0
      [] s = "0.0" -> 0
      [] s = "30"  -> 30
      [] s = "60"  -> 60
      [] s = "90"  -> 90
      [] OTHER     -> 0

earthRadius == 6371

\* The value of a float64 that is not a number.
NaN == -1

\* 4 * sin(d)^2 in millionths, for d a multiple of 30 degrees or one degree
\* off a multiple of 180.
Sin2x4(d) ==
    CASE d % 180 = 0   -> 0
      [] d % 180 = 1   -> 1218
      [] d % 180 = 30  -> 1000000
      [] d % 180 = 60  -> 3000000
      [] d % 180 = 90  -> 4000000
      [] d % 180 = 120 -> 3000000
      [] d % 180 = 150 -> 1000000
      [] d % 180 = 179 -> 1218

\* 2 * cos(d) for a latitude d in {-90, -60, -1, 0, 1, 60, 90}, to the unit
\* (2 * cos(1 degree) is 1.9997).
Cos2(d) ==
    CASE d \in {-1, 0, 1}   -> 2
      [] d \in {60, -60}    -> 1
      [] d \in {90, -90}    -> 0

\* 2 * atan2(sqrt(a), sqrt(1 - a)) in units of 10^-5 radians, for a = k / 16,
\* k in 0..16.
ArcE5 ==
    <<0, 50536, 72273, 89566, 104720, 118640, 131812, 144547, 157080,
      169612, 182348, 195519, 209440, 224593, 241886, 263623, 314159>>

\* 2 * atan2(sqrt(a), sqrt(1 - a)) in units of 10^-5 radians, for a given in
\* units of 1/16000000: the values ArcE5 lists, and those that one degree of
\* latitude adds to them.
Arc(a) ==
    CASE a % 1000000 = 0 -> ArcE5[(a \div 1000000) + 1]
      [] a = 4872        -> 3490
      [] a = 4004872     -> 104790
      [] a = 12004872    -> 209510

\* getDistance in whole kilometres.  a is computed as the source computes it,
\* from sin(lat2-lat1) and sin(lon2-lon1), in units of 1/16000000; when a > 1,
\* math.Sqrt(1-a) is NaN and so is the distance.
getDistance(lat1, lon1, lat2, lon2) ==
    LET a == 4 * Sin2x4(lat2 - lat1) + Cos2(lat1) * Cos2(lat2) * Sin2x4(lon2 - lon1)
    IN  IF a > 16000000 THEN NaN
        ELSE (earthRadius * Arc(a)) \div 100000

\* x <= y on float64: false when either side is NaN.
FloatLeq(x, y) == x # NaN /\ y # NaN /\ x <= y

getMemberLocation(member) == <<member.latitude, member.longitude>>

locationKey(x, y) == x \o "-" \o y

\* findInSlice that never finds the key.
findInSliceNever(slice, key) == -1

RECURSIVE findInSliceFrom(_, _, _)
findInSliceFrom(slice, key, i) ==
    IF i > Len(slice) THEN -1
    ELSE IF slice[i].Key = key THEN i - 1
    ELSE findInSliceFrom(slice, key, i + 1)

\* findInSlice: the (0-based) index of the first group with the key, or -1.
findInSlice(slice, key) == findInSliceFrom(slice, key, 1)

\* The body of the loop over serfMembers, without the write-back
\* nodeDistances[index] = node.
AddMemberNoWriteBack(groups, member, lat, long) ==
    LET x2 == getMemberLocation(member)[1]
        y2 == getMemberLocation(member)[2]
        key == locationKey(x2, y2)
        found == findInSlice(groups, key)
    IN  IF found = -1
        THEN Append(groups,
                    [Key |-> key,
                     Latitude |-> ParseFloat(x2),
                     Longitude |-> ParseFloat(y2),
                     Distance |-> getDistance(lat, long, ParseFloat(x2), ParseFloat(y2)),
                     Nodes |-> <<member>>])
        ELSE groups

\* The body of the loop over serfMembers: a new group for a new key, else the
\* member is appended to the group found.
AddMember(groups, member, lat, long) ==
    LET x2 == getMemberLocation(member)[1]
        y2 == getMemberLocation(member)[2]
        key == locationKey(x2, y2)
        found == findInSlice(groups, key)
    IN  IF found = -1
        THEN Append(groups,
                    [Key |-> key,
                     Latitude |-> ParseFloat(x2),
                     Longitude |-> ParseFloat(y2),
                     Distance |-> getDistance(lat, long, ParseFloat(x2), ParseFloat(y2)),
                     Nodes |-> <<member>>])
        ELSE [groups EXCEPT ![found + 1].Nodes = Append(@, member)]

RECURSIVE GroupMembers(_, _, _, _)
GroupMembers(members, groups, lat, long) ==
    IF members = <<>> THEN groups
    ELSE GroupMembers(Tail(members), AddMember(groups, Head(members), lat, long), lat, long)

\* The less function given to sort.Slice.
Less(gi, gj) == FloatLeq(gi.Distance, gj.Distance)

Swap(s, i, j) == [s EXCEPT ![i] = s[j], ![j] = s[i]]

\* sort.Slice on a slice of at most 12 elements is an insertion sort:
\*   for i := a + 1; i < b; i++ {
\*       for j := i; j > a && less(j, j-1); j-- { swap(j, j-1) } }
RECURSIVE InsertionInner(_, _)
InsertionInner(s, j) ==
    IF j > 1 /\ Less(s[j], s[j - 1])
    THEN InsertionInner(Swap(s, j, j - 1), j - 1)
    ELSE s

RECURSIVE InsertionOuter(_, _)
InsertionOuter(s, i) ==
    IF i > Len(s) THEN s
    ELSE InsertionOuter(InsertionInner(s, i), i + 1)

SortSlice(s) == InsertionOuter(s, 2)

\* The selection loop without the test of the count.
RECURSIVE SelectLoopAll(_, _, _, _)
SelectLoopAll(ret, idx, groups, count) ==
    IF idx < Len(groups)
    THEN SelectLoopAll(ret \o groups[idx + 1].Nodes, idx + 1, groups, count)
    ELSE <<ret, idx>>

\* The selection loop with <= in place of <.
RECURSIVE SelectLoopLeq(_, _, _, _)
SelectLoopLeq(ret, idx, groups, count) ==
    IF Len(ret) <= count /\ idx < Len(groups)
    THEN SelectLoopLeq(ret \o groups[idx + 1].Nodes, idx + 1, groups, count)
    ELSE <<ret, idx>>

\* for (len(returnMembers) < selectNodeCount) && (index < len(nodeDistances))
\* The result is <<returnMembers, index>>.
RECURSIVE SelectLoop(_, _, _, _)
SelectLoop(ret, idx, groups, count) ==
    IF Len(ret) < count /\ idx < Len(groups)
    THEN SelectLoop(ret \o groups[idx + 1].Nodes, idx + 1, groups, count)
    ELSE <<ret, idx>>

\* The candidate lists: members are told apart by their names.
MemberLists ==
    UNION {[1..n -> {[Name |-> "n", latitude |-> x, longitude |-> y] :
                        x \in LatTags, y \in LonTags}] : n \in 0..MaxMembers}

Named(list) == [i \in DOMAIN list |-> [list[i] EXCEPT !.Name = "n" \o ToString(i)]]

GeoInit ==
    /\ VodInit
    /\ RestIdle
    /\ \E list \in MemberLists : serfMembers = Named(list)
    /\ serfNil \in (IF serfMembers = <<>> THEN BOOLEAN ELSE {FALSE})
    /\ selectNodeCount \in 0..MaxCount
    /\ origin \in Origins
    /\ geoPc = "call"
    /\ nodeDistances = <<>>
    /\ index = 0
    /\ returnMembers = <<>>

\* getClosestSerfNodes as it would be with
\* returnMembers := make([]serfClient.Member, selectNodeCount).
getClosestSerfNodesPrealloc ==
    /\ geoPc = "call"
    /\ IF serfNil
       THEN /\ nodeDistances' = <<>>
            /\ returnMembers' = <<>>
            /\ index' = 0
       ELSE LET groups == SortSlice(GroupMembers(serfMembers, <<>>, origin[1], origin[2]))
                sel == SelectLoop([i \in 1..selectNodeCount |->
                                     [Name |-> "", latitude |-> "", longitude |-> ""]], 0,
                                  groups, selectNodeCount)
            IN  /\ nodeDistances' = groups
                /\ returnMembers' = sel[1]
                /\ index' = sel[2]
    /\ geoPc' = "done"
    /\ UNCHANGED <<serfMembers, serfNil, selectNodeCount, origin>>
    /\ UNCHANGED <<vodVars, restVars>>

\* getClosestSerfNodes(serfMembers, selectNodeCount, lat, long): nil for the
\* nil slice, else group, sort and select.
getClosestSerfNodes ==
    /\ geoPc = "call"
    /\ IF serfNil
       THEN /\ nodeDistances' = <<>>
            /\ returnMembers' = <<>>
            /\ index' = 0
       ELSE LET groups == SortSlice(GroupMembers(serfMembers, <<>>, origin[1], origin[2]))
                sel == SelectLoop(<<>>, 0, groups, selectNodeCount)
            IN  /\ nodeDistances' = groups
                /\ returnMembers' = sel[1]
                /\ index' = sel[2]
    /\ geoPc' = "done"
    /\ UNCHANGED <<serfMembers, serfNil, selectNodeCount, origin>>
    /\ UNCHANGED <<vodVars, restVars>>

GeoNext == getClosestSerfNodes

GeoSpec == GeoInit /\ [][GeoNext]_vars


(***************************************************************************)
(* getDistance                                                             *)
(***************************************************************************)

\* The points getDistance is applied to: on the equator, and one degree north
\* of it.
Points == {<<0, 0>>, <<0, 30>>, <<0, 60>>, <<0, 90>>, <<0, 120>>,
           <<1, 0>>, <<1, 30>>, <<1, 60>>}

DistInit ==
    /\ VodInit
    /\ GeoIdle
    /\ PlaybackIdle
    /\ MainIdle
    /\ MoreIdle
    /\ \E p1 \in Points, p2 \in Points : distArgs = <<p1[1], p1[2], p2[1], p2[2]>>
    /\ distPc = "call"
    /\ distance = 0

\* distance := getDistance(lat1, lon1, lat2, lon2)
CallGetDistance ==
    /\ distPc = "call"
    /\ distance' = getDistance(distArgs[1], distArgs[2], distArgs[3], distArgs[4])
    /\ distPc' = "done"
    /\ UNCHANGED <<distArgs, vodVars, geoVars, playVars, mainVars, moreVars>>

DistNext == CallGetDistance

DistSpec == DistInit /\ [][DistNext]_vars


(***************************************************************************)
(* vodTester.checkPlayback                                                 *)
(***************************************************************************)

MaxSources == 2
MaxManifestPolls == 2
MaxRenditions == 2

\* asset.VideoSpec.DurationSec values GetAsset may report.
Durations == {-1, 0, 10}

\* The entries a playback description may list: their type and url.
SourceKinds ==
    { [Type |-> "MP4", Url |-> "mp4"],
      [Type |-> "HLS", Url |-> "hls1"],
      [Type |-> "HLS", Url |-> "hls2"],
      [Type |-> "HLS", Url |-> ""] }

SourceLists == UNION { [1..n -> SourceKinds] : n \in 0..MaxSources }

\* asset.VideoSpec.DurationSec < 0
DurationMissingStrict(d) == d < 0

\* asset.VideoSpec.DurationSec <= 0
DurationMissing(d) == d <= 0

\* The source loop without its break: the url of the last HLS source from
\* index i on.
HLSUrlNoBreak(sources, i) ==
    LET hls == {j \in i..Len(sources) : sources[j].Type = "HLS"}
    IN  IF hls = {} THEN ""
        ELSE sources[CHOOSE j \in hls : \A k \in hls : k <= j].Url

\* The source loop: the url of the first HLS source from index i on, "" when
\* there is none.
RECURSIVE HLSUrl(_, _)
HLSUrl(sources, i) ==
    IF i > Len(sources) THEN ""
    ELSE IF sources[i].Type = "HLS" THEN sources[i].Url
    ELSE HLSUrl(sources, i + 1)

\* numRenditions < 1
TooFewRenditionsStrict(n) == n < 1

\* numRenditions <= 1
TooFewRenditions(n) == n <= 1

\* What checkPlayback returns once CheckStats returned err and stats with n
\* renditions.
AfterCheckStats(err, n) ==
    IF err # "nil" THEN err
    ELSE IF TooFewRenditions(n) THEN "no transcoded renditions found in playlist"
    ELSE "nil"

PlaybackInit ==
    /\ VodInit
    /\ GeoIdle
    /\ DistIdle
    /\ MainIdle
    /\ MoreIdle
    /\ pbPc = "GetAsset"
    /\ pbCtxDone = FALSE
    /\ pbDuration = 0
    /\ pbSources = <<>>
    /\ pbUrl = ""
    /\ pbPolls = 0
    /\ pbSeen = {}
    /\ pbCalls = {}
    /\ pbErr = "none"

\* vt.Ctx is cancelled while checkPlayback runs.
PlaybackCtxCancel ==
    /\ pbPc \notin {"idle", "done"}
    /\ ~pbCtxDone
    /\ pbCtxDone' = TRUE
    /\ UNCHANGED <<pbPc, pbDuration, pbSources, pbUrl, pbPolls, pbSeen, pbCalls, pbErr>>
    /\ UNCHANGED <<vodVars, geoVars, distVars, mainVars, moreVars>>

\* vt.Lapi.GetAsset fails.
GetAssetFail ==
    /\ pbPc = "GetAsset"
    /\ pbCalls' = pbCalls \cup {"GetAsset"}
    /\ pbErr' = "error getting asset"
    /\ pbPc' = "done"
    /\ UNCHANGED <<pbCtxDone, pbDuration, pbSources, pbUrl, pbPolls, pbSeen>>
    /\ UNCHANGED <<vodVars, geoVars, distVars, mainVars, moreVars>>

\* vt.Lapi.GetAsset returns an asset, and its duration is tested.
GetAsset ==
    /\ pbPc = "GetAsset"
    /\ pbCalls' = pbCalls \cup {"GetAsset"}
    /\ \E dur \in Durations :
        /\ pbDuration' = dur
        /\ IF DurationMissing(dur)
           THEN pbErr' = "missing asset duration" /\ pbPc' = "done"
           ELSE pbErr' = pbErr /\ pbPc' = "GetPlaybackInfo"
    /\ UNCHANGED <<pbCtxDone, pbSources, pbUrl, pbPolls, pbSeen>>
    /\ UNCHANGED <<vodVars, geoVars, distVars, mainVars, moreVars>>

\* vt.Lapi.GetPlaybackInfo fails.
GetPlaybackInfoFail ==
    /\ pbPc = "GetPlaybackInfo"
    /\ pbCalls' = pbCalls \cup {"GetPlaybackInfo"}
    /\ pbErr' = "error getting playback info"
    /\ pbPc' = "done"
    /\ UNCHANGED <<pbCtxDone, pbDuration, pbSources, pbUrl, pbPolls, pbSeen>>
    /\ UNCHANGED <<vodVars, geoVars, distVars, mainVars, moreVars>>

\* vt.Lapi.GetPlaybackInfo returns a description, and the HLS source is
\* looked up in it.
GetPlaybackInfo ==
    /\ pbPc = "GetPlaybackInfo"
    /\ pbCalls' = pbCalls \cup {"GetPlaybackInfo"}
    /\ \E sources \in SourceLists :
        /\ pbSources' = sources
        /\ pbUrl' = HLSUrl(sources, 1)
        /\ IF HLSUrl(sources, 1) = ""
           THEN pbErr' = "no HLS source found in playback info" /\ pbPc' = "done"
           ELSE pbErr' = pbErr /\ pbPc' = "CheckStats"
    /\ UNCHANGED <<pbCtxDone, pbDuration, pbPolls, pbSeen>>
    /\ UNCHANGED <<vodVars, geoVars, distVars, mainVars, moreVars>>

\* m3u8.CheckStats polls the manifest once: it is not fetchable yet (-1), or
\* it exposes n renditions.  More than one rendition ends the wait.
CheckStatsPoll ==
    /\ pbPc = "CheckStats"
    /\ ~pbCtxDone
    /\ pbPolls < MaxManifestPolls
    /\ pbCalls' = pbCalls \cup {"CheckStats"}
    /\ pbPolls' = pbPolls + 1
    /\ \E n \in -1..MaxRenditions :
        /\ pbSeen' = pbSeen \cup {n}
        /\ IF n > 1
           THEN pbErr' = AfterCheckStats("nil", n) /\ pbPc' = "done"
           ELSE pbErr' = pbErr /\ pbPc' = pbPc
    /\ UNCHANGED <<pbCtxDone, pbDuration, pbSources, pbUrl>>
    /\ UNCHANGED <<vodVars, geoVars, distVars, mainVars, moreVars>>

\* The maximum wait has passed without more than one rendition: CheckStats
\* returns the statistics of a manifest it fetched, or an error.
CheckStatsTimeout ==
    /\ pbPc = "CheckStats"
    /\ ~pbCtxDone
    /\ pbPolls = MaxManifestPolls
    /\ \/ pbErr' = AfterCheckStats("manifest wait timed out", 0)
       \/ \E n \in pbSeen \ {-1} : pbErr' = AfterCheckStats("nil", n)
    /\ pbPc' = "done"
    /\ UNCHANGED <<pbCtxDone, pbDuration, pbSources, pbUrl, pbPolls, pbSeen, pbCalls>>
    /\ UNCHANGED <<vodVars, geoVars, distVars, mainVars, moreVars>>

\* vt.Ctx is cancelled: CheckStats returns the context's error.
CheckStatsCancelled ==
    /\ pbPc = "CheckStats"
    /\ pbCtxDone
    /\ pbCalls' = pbCalls \cup {"CheckStats"}
    /\ pbErr' = AfterCheckStats("context canceled", 0)
    /\ pbPc' = "done"
    /\ UNCHANGED <<pbCtxDone, pbDuration, pbSources, pbUrl, pbPolls, pbSeen>>
    /\ UNCHANGED <<vodVars, geoVars, distVars, mainVars, moreVars>>

PlaybackNext ==
    \/ PlaybackCtxCancel
    \/ GetAssetFail
    \/ GetAsset
    \/ GetPlaybackInfoFail
    \/ GetPlaybackInfo
    \/ CheckStatsPoll
    \/ CheckStatsTimeout
    \/ CheckStatsCancelled

PlaybackSpec == PlaybackInit /\ [][PlaybackNext]_vars

(***************************************************************************)
(* recordtester's main: the exit closure, the signal goroutine, the single *)
(* run and the continuous run                                              *)
(***************************************************************************)

\* The exit codes a single run's Start may return.
ExitCodes == {0, 1, 2}

\* context.Canceled itself, not wrapped.
Canceled == [phase |-> "none", cause |-> "canceled"]

\* errors.Is(err, context.Canceled)
IsCancellation(err) == err.cause = "canceled"

\* The errors a tester's Start may return: nil, an error of one of its steps,
\* and, once its context is done, context.Canceled bare or wrapped by a step.
StartErrors(t, ctxDone) ==
    {Nil, PhaseError(t, "error")}
        \cup (IF ctxDone THEN {Canceled, PhaseError(t, "canceled")} ELSE {})

\* exit() as it would be if an error forced a non-zero code.
ExitCodeOneOnError(exitCode, err) ==
    IF err = Canceled THEN 0
    ELSE IF err # Nil /\ exitCode = 0 THEN 1
    ELSE exitCode

\* The code exit() hands to os.Exit: err != context.Canceled compares with
\* the sentinel itself.
ExitCode(exitCode, err) ==
    IF err # Canceled THEN exitCode ELSE 0

\* cleanup as it would be without the comparison of the names.
CleanupAlways ==
    mFileExists' = FALSE

\* cleanup(fn, fa): the local copy is removed, the file given by -file is not.
Cleanup ==
    mFileExists' = (IF mTemp THEN FALSE ELSE mFileExists)

MainInit ==
    /\ VodInit
    /\ GeoIdle
    /\ DistIdle
    /\ PlaybackIdle
    /\ MoreIdle
    /\ mMode \in {"single", "continuous"}
    /\ mEnabled \in (IF mMode = "continuous" THEN SUBSET Testers ELSE {{}})
    /\ mTemp \in BOOLEAN
    /\ mFileExists = TRUE
    /\ mainCtx = FALSE
    /\ mEgCtx = FALSE
    /\ mEgErr = Nil
    /\ mTesterErr = [t \in Testers |-> IF t \in mEnabled THEN Running ELSE Off]
    /\ mSigPc = "wait"
    /\ mPc = "run"
    /\ mExitArgs = <<0, Nil>>
    /\ mExitCode = -1
    /\ mErrorPrinted = FALSE
    /\ mFailureLogged = FALSE

\* <-exitc; gcancel(): a signal arrives and the signal goroutine cancels gctx
\* and with it the errgroup's context.
SignalCancel ==
    /\ mPc \in {"run", "exit"}
    /\ mSigPc = "wait"
    /\ mainCtx' = TRUE
    /\ mEgCtx' = TRUE
    /\ mSigPc' = "cleanup"
    /\ UNCHANGED <<mMode, mEnabled, mTemp, mFileExists, mEgErr, mTesterErr, mPc,
                   mExitArgs, mExitCode, mErrorPrinted, mFailureLogged>>
    /\ UNCHANGED <<vodVars, geoVars, distVars, playVars, moreVars>>

\* The signal goroutine goes on to cleanup(fn, fa); it never exits the process.
SignalCleanup ==
    /\ mPc \in {"run", "exit"}
    /\ mSigPc = "cleanup"
    /\ Cleanup
    /\ mSigPc' = "done"
    /\ UNCHANGED <<mMode, mEnabled, mTemp, mainCtx, mEgCtx, mEgErr, mTesterErr, mPc,
                   mExitArgs, mExitCode, mErrorPrinted, mFailureLogged>>
    /\ UNCHANGED <<vodVars, geoVars, distVars, playVars, moreVars>>

\* es, err := rt.Start(...): the single run returns its pair.
SingleRunReturn ==
    /\ mMode = "single"
    /\ mPc = "run"
    /\ \E es \in ExitCodes, err \in StartErrors("record", mainCtx) :
          mExitArgs' = <<es, err>>
    /\ mPc' = "exit"
    /\ UNCHANGED <<mMode, mEnabled, mTemp, mFileExists, mainCtx, mEgCtx, mEgErr,
                   mTesterErr, mSigPc, mExitCode, mErrorPrinted, mFailureLogged>>
    /\ UNCHANGED <<vodVars, geoVars, distVars, playVars, moreVars>>

\* The goroutine of eg.Go: the continuous tester t returned err; the first
\* non-nil error is kept and cancels the errgroup's context.
TesterReturn(t) ==
    /\ mMode = "continuous"
    /\ mPc = "run"
    /\ mTesterErr[t] = Running
    /\ \E err \in StartErrors(t, mEgCtx) :
        /\ mTesterErr' = [mTesterErr EXCEPT ![t] = err]
        /\ IF err # Nil /\ mEgErr = Nil
           THEN mEgErr' = err /\ mEgCtx' = TRUE
           ELSE UNCHANGED <<mEgErr, mEgCtx>>
    /\ UNCHANGED <<mMode, mEnabled, mTemp, mFileExists, mainCtx, mSigPc, mPc,
                   mExitArgs, mExitCode, mErrorPrinted, mFailureLogged>>
    /\ UNCHANGED <<vodVars, geoVars, distVars, playVars, moreVars>>

\* eg.Wait() as it would be if it returned at the first error.
ContinuousWaitEarly ==
    /\ mMode = "continuous"
    /\ mPc = "run"
    /\ mEgErr # Nil \/ \A t \in mEnabled : mTesterErr[t] # Running
    /\ mEgCtx' = TRUE
    /\ mExitArgs' = <<0, Nil>>
    /\ mPc' = "exit"
    /\ UNCHANGED <<mMode, mEnabled, mTemp, mFileExists, mainCtx, mEgErr, mTesterErr,
                   mSigPc, mExitCode, mErrorPrinted, mFailureLogged>>
    /\ UNCHANGED <<vodVars, geoVars, distVars, playVars, moreVars>>

\* eg.Wait() returns once every tester returned; its error is only logged as
\* a warning, and exit is called with code 0 and main's own err, which is nil.
ContinuousWait ==
    /\ mMode = "continuous"
    /\ mPc = "run"
    /\ \A t \in mEnabled : mTesterErr[t] # Running
    /\ mEgCtx' = TRUE
    /\ mExitArgs' = <<0, Nil>>
    /\ mPc' = "exit"
    /\ UNCHANGED <<mMode, mEnabled, mTemp, mFileExists, mainCtx, mEgErr, mTesterErr,
                   mSigPc, mExitCode, mErrorPrinted, mFailureLogged>>
    /\ UNCHANGED <<vodVars, geoVars, distVars, playVars, moreVars>>

\* exit(exitCode, fn, fa, err)
Exit ==
    /\ mPc = "exit"
    /\ Cleanup
    /\ mErrorPrinted' = (mExitArgs[2] # Canceled /\ mExitArgs[2] # Nil)
    /\ mFailureLogged' = (mExitArgs[2] # Canceled /\ mExitArgs[1] # 0)
    /\ mExitCode' = ExitCode(mExitArgs[1], mExitArgs[2])
    /\ mPc' = "exited"
    /\ UNCHANGED <<mMode, mEnabled, mTemp, mainCtx, mEgCtx, mEgErr, mTesterErr,
                   mSigPc, mExitArgs>>
    /\ UNCHANGED <<vodVars, geoVars, distVars, playVars, moreVars>>

MainNext ==
    \/ SignalCancel
    \/ SignalCleanup
    \/ SingleRunReturn
    \/ \E t \in Testers : TesterReturn(t)
    \/ ContinuousWait
    \/ Exit

MainSpec == MainInit /\ [][MainNext]_vars

(***************************************************************************)
(* recordtester's main: validation of the parameters and startup           *)
(***************************************************************************)

\* The startup as it would be if the serf members were fetched first.
StartupStepsSerfFirst ==
    <<"getSerfMembers", "checkFile", "checkPause", "checkTestDur", "checkApiToken",
      "checkSerf", "GetFile", "parseIngest", "NewAPIClient", "NewTester">>

\* What main does from the validation of its parameters to the creation of
\* the tester, in program order.
StartupSteps ==
    <<"checkFile", "checkPause", "checkTestDur", "checkApiToken", "checkSerf",
      "GetFile", "parseIngest", "getSerfMembers", "NewAPIClient", "NewTester">>

\* The steps that validate a parameter.
StartupChecks == {"checkFile", "checkPause", "checkTestDur", "checkApiToken", "checkSerf"}

\* The steps that can end the process with an error of their own.
StartupFallible == {"GetFile", "parseIngest", "getSerfMembers"}

\* The parameter a check tests is given and valid.
CheckPasses(step, cfg) ==
    CASE step = "checkFile"     -> cfg.file
      [] step = "checkPause"    -> cfg.pause
      [] step = "checkTestDur"  -> cfg.testDur
      [] step = "checkApiToken" -> cfg.apiToken
      [] step = "checkSerf"     -> cfg.serf # "noaddr"

\* os.Exit(1) after a message, or glog.Fatal, which exits with 255.
StartupExitCode(step) ==
    IF step \in {"checkFile", "checkPause", "GetFile"} THEN 1 ELSE 255

\* The call a step makes: getSerfMembers asks the serf agent only with
\* -use-serf and an address; the checks and the parsing make none.
StartupCallOf(step, cfg) ==
    CASE step = "getSerfMembers" -> IF cfg.serf = "addr" THEN {"serf.Members"} ELSE {}
      [] step \in {"GetFile", "NewAPIClient", "NewTester"} -> {step}
      [] OTHER -> {}

StartupInit ==
    /\ VodInit
    /\ GeoIdle
    /\ DistIdle
    /\ PlaybackIdle
    /\ MainIdle
    /\ LoginIdle
    /\ PollIdle
    /\ SimIdle
    /\ FileIdle
    /\ suCfg \in [file : BOOLEAN, pause : BOOLEAN, testDur : BOOLEAN,
                  apiToken : BOOLEAN, serf : {"off", "addr", "noaddr"}]
    /\ suPc = 1
    /\ suCalls = {}
    /\ suExit = -1

StartupRunning == suExit = -1 /\ suPc \in 1..Len(StartupSteps)

\* A validation: the process goes on, or ends with os.Exit(1) or glog.Fatal.
StartupCheck ==
    /\ StartupRunning
    /\ StartupSteps[suPc] \in StartupChecks
    /\ IF CheckPasses(StartupSteps[suPc], suCfg)
       THEN suPc' = suPc + 1 /\ suExit' = suExit
       ELSE suPc' = suPc /\ suExit' = StartupExitCode(StartupSteps[suPc])
    /\ UNCHANGED <<suCfg, suCalls>>
    /\ UNCHANGED exceptStart

\* A step after the validation succeeds.
StartupCall ==
    /\ StartupRunning
    /\ StartupSteps[suPc] \notin StartupChecks
    /\ suCalls' = suCalls \cup StartupCallOf(StartupSteps[suPc], suCfg)
    /\ suPc' = suPc + 1
    /\ UNCHANGED <<suCfg, suExit>>
    /\ UNCHANGED exceptStart

\* GetFile, the parsing of -ingest or the serf agent fails: the process ends.
StartupCallFail ==
    /\ StartupRunning
    /\ StartupSteps[suPc] \in StartupFallible
    /\ StartupSteps[suPc] = "getSerfMembers" => suCfg.serf = "addr"
    /\ suCalls' = suCalls \cup StartupCallOf(StartupSteps[suPc], suCfg)
    /\ suExit' = StartupExitCode(StartupSteps[suPc])
    /\ UNCHANGED <<suCfg, suPc>>
    /\ UNCHANGED exceptStart

StartupNext ==
    \/ StartupCheck
    \/ StartupCall
    \/ StartupCallFail

StartupSpec == StartupInit /\ [][StartupNext]_vars

(***************************************************************************)
(* mist-api-connector: ensureLoggedIn                                      *)
(***************************************************************************)

\* Time is counted in ticks of half a second.
MaxTimeout == 4
MaxLoginTime == 3

\* time.After(1 * time.Second), in ticks.
RetryDelay == 2

\* What mapi.Login returns: nil, an error that is a net.Error, another error.
LoginOutcomes == {"ok", "net", "other"}

LoginInit ==
    /\ VodInit
    /\ GeoIdle
    /\ DistIdle
    /\ PlaybackIdle
    /\ MainIdle
    /\ StartupIdle
    /\ PollIdle
    /\ SimIdle
    /\ FileIdle
    /\ lgTimeout \in 0..MaxTimeout
    /\ lgNow = 0
    /\ lgPc = "login"
    /\ lgLog = <<>>

\* err := mapi.Login(), which takes some time, and the tests of err.
Login ==
    /\ lgPc = "login"
    /\ \E took \in 0..MaxLoginTime, outcome \in LoginOutcomes :
        /\ lgNow' = lgNow + took
        /\ lgLog' = Append(lgLog, [start |-> lgNow, end |-> lgNow + took,
                                   outcome |-> outcome])
        /\ lgPc' = CASE outcome = "ok"    -> "returned"
                     [] outcome = "net"   -> "select"
                     [] outcome = "other" -> "fatal"
    /\ UNCHANGED lgTimeout
    /\ UNCHANGED exceptLogin

\* The select as it would be without the deadline case.
SelectAfterOnly ==
    /\ lgPc = "select"
    /\ lgNow <= lgTimeout + MaxLoginTime
    /\ lgNow' = lgNow + RetryDelay
    /\ lgPc' = "login"
    /\ UNCHANGED <<lgTimeout, lgLog>>
    /\ UNCHANGED exceptLogin

\* case <-time.After(1 * time.Second): the delay ends no later than the
\* deadline timer fires, and the loop goes on to the next attempt.
SelectAfter ==
    /\ lgPc = "select"
    /\ lgNow + RetryDelay <= lgTimeout
    /\ lgNow' = lgNow + RetryDelay
    /\ lgPc' = "login"
    /\ UNCHANGED <<lgTimeout, lgLog>>
    /\ UNCHANGED exceptLogin

\* case <-deadline.C: the timer has fired already, or fires no later than the
\* delay ends: glog.Fatalf.
SelectDeadline ==
    /\ lgPc = "select"
    /\ lgTimeout <= lgNow + RetryDelay
    /\ lgNow' = (IF lgTimeout > lgNow THEN lgTimeout ELSE lgNow)
    /\ lgPc' = "fatal"
    /\ UNCHANGED <<lgTimeout, lgLog>>
    /\ UNCHANGED exceptLogin

LoginNext ==
    \/ Login
    \/ SelectAfter
    \/ SelectDeadline

LoginSpec == LoginInit /\ [][LoginNext]_vars

(***************************************************************************)
(* TesterApp.WaitTaskProcessing as the phases call it                      *)
(***************************************************************************)

MaxInterval == 3
MaxClock == 12

\* The states of a task that end the wait, and the one that does not.
TaskStatuses == {"pending", "completed", "failed"}

\* What a poll of the task can show.
StatusOf(task) == IF task = "stuck" THEN {"pending"} ELSE TaskStatuses

PollInit ==
    /\ VodInit
    /\ GeoIdle
    /\ DistIdle
    /\ PlaybackIdle
    /\ MainIdle
    /\ StartupIdle
    /\ LoginIdle
    /\ SimIdle
    /\ FileIdle
    /\ plTask \in {"stuck", "live"}
    /\ plInterval \in 1..MaxInterval
    /\ plNow = 0
    /\ plCtxDone = FALSE
    /\ plPc = "sleep"
    /\ plErr = "none"

\* vt.Ctx is cancelled while the wait goes on.
PollCtxCancel ==
    /\ plPc \in {"sleep", "poll"}
    /\ ~plCtxDone
    /\ plCtxDone' = TRUE
    /\ UNCHANGED <<plTask, plInterval, plNow, plPc, plErr>>
    /\ UNCHANGED exceptPoll

\* The wait lets one poll interval pass.  The call is given the interval and
\* the task only, and vt.Ctx has no deadline: nothing ends the wait by time.
PollSleep ==
    /\ plPc = "sleep"
    /\ plNow' = (IF plNow + plInterval > MaxClock THEN MaxClock ELSE plNow + plInterval)
    /\ plPc' = "poll"
    /\ UNCHANGED <<plTask, plInterval, plCtxDone, plErr>>
    /\ UNCHANGED exceptPoll

\* The wait finds vt.Ctx cancelled and returns the cancellation.
PollCancelled ==
    /\ plPc = "poll"
    /\ plCtxDone
    /\ plErr' = "canceled"
    /\ plPc' = "done"
    /\ UNCHANGED <<plTask, plInterval, plNow, plCtxDone>>
    /\ UNCHANGED exceptPoll

\* The wait fetches the task: a terminal status ends it, pending does not.
PollStatus ==
    /\ plPc = "poll"
    /\ ~plCtxDone
    /\ \E status \in StatusOf(plTask) :
        /\ plErr' = CASE status = "completed" -> "nil"
                      [] status = "failed"    -> "error"
                      [] status = "pending"   -> plErr
        /\ plPc' = IF status = "pending" THEN "sleep" ELSE "done"
    /\ UNCHANGED <<plTask, plInterval, plNow, plCtxDone>>
    /\ UNCHANGED exceptPoll

PollNext ==
    \/ PollCtxCancel
    \/ PollSleep
    \/ PollCancelled
    \/ PollStatus

PollSpec == PollInit /\ [][PollNext]_vars

\* The wait itself always goes on; a cancellation need not come.
PollFairSpec ==
    PollSpec /\ WF_vars(PollSleep) /\ WF_vars(PollCancelled) /\ WF_vars(PollStatus)

(***************************************************************************)
(* recordtester's main with -sim: testers launched one after the other,    *)
(* each in a goroutine that writes its result into shared variables        *)
(***************************************************************************)

MaxSim == 2

\* The capacity append gives the array it allocates when the old one is full.
GrowCap(cap) == IF cap = 0 THEN 1 ELSE 2 * cap

\* eses = append(eses, 0): in place while the array has room, else into a
\* new array that receives a copy of the elements.
AppendZero ==
    LET full == smCur = 0 \/ Len(smArrays[smCur].elems) = smArrays[smCur].cap
        old == IF smCur = 0 THEN [cap |-> 0, elems |-> <<>>] ELSE smArrays[smCur]
    IN  IF full
        THEN /\ smArrays' = Append(smArrays, [cap |-> GrowCap(old.cap),
                                              elems |-> Append(old.elems, 0)])
             /\ smCur' = Len(smArrays) + 1
        ELSE /\ smArrays' = [smArrays EXCEPT ![smCur].elems = Append(@, 0)]
             /\ smCur' = smCur

SimInit ==
    /\ VodInit
    /\ GeoIdle
    /\ DistIdle
    /\ PlaybackIdle
    /\ MainIdle
    /\ StartupIdle
    /\ LoginIdle
    /\ PollIdle
    /\ FileIdle
    /\ smN \in 2..MaxSim
    /\ smLaunched = 0
    /\ smArrays = <<>>
    /\ smCur = 0
    /\ smG = [i \in 1..smN |-> [pc |-> "new", les |-> 0, lerr |-> Nil, arr |-> 0]]
    /\ smEs = 0
    /\ smErr = Nil
    /\ smPc = "launch"
    /\ smSucc = 0
    /\ smExitCode = -1

\* One round of the launch loop: eses = append(eses, 0); wg.Add(1); go func.
SimLaunch ==
    /\ smPc = "launch"
    /\ smLaunched < smN
    /\ AppendZero
    /\ smLaunched' = smLaunched + 1
    /\ smG' = [smG EXCEPT ![smLaunched + 1].pc = "running"]
    /\ UNCHANGED <<smN, smEs, smErr, smPc, smSucc, smExitCode>>
    /\ UNCHANGED exceptSim

\* les, lerr := rt.Start(...) returns in goroutine i.
SimStartReturn(i) ==
    /\ smG[i].pc = "running"
    /\ \E les \in ExitCodes, lerr \in StartErrors("record", FALSE) :
          smG' = [smG EXCEPT ![i] = [@ EXCEPT !.pc = "load", !.les = les, !.lerr = lerr]]
    /\ UNCHANGED <<smN, smLaunched, smArrays, smCur, smEs, smErr, smPc, smSucc,
                   smExitCode>>
    /\ UNCHANGED exceptSim

\* eses[ii] = les, first half: goroutine i reads the variable eses, which
\* the launch loop writes without synchronisation.
SimLoad(i) ==
    /\ smG[i].pc = "load"
    /\ smG' = [smG EXCEPT ![i] = [@ EXCEPT !.pc = "store", !.arr = smCur]]
    /\ UNCHANGED <<smN, smLaunched, smArrays, smCur, smEs, smErr, smPc, smSucc,
                   smExitCode>>
    /\ UNCHANGED exceptSim

\* eses[ii] = les, second half: the store into the array that was read.
SimStore(i) ==
    /\ smG[i].pc = "store"
    /\ smArrays' = [smArrays EXCEPT ![smG[i].arr].elems[i] = smG[i].les]
    /\ smG' = [smG EXCEPT ![i].pc = "finish"]
    /\ UNCHANGED <<smN, smLaunched, smCur, smEs, smErr, smPc, smSucc, smExitCode>>
    /\ UNCHANGED exceptSim

\* if les != 0 { es = les }; if lerr != nil { err = lerr }; wg.Done()
SimFinish(i) ==
    /\ smG[i].pc = "finish"
    /\ smEs' = (IF smG[i].les # 0 THEN smG[i].les ELSE smEs)
    /\ smErr' = (IF smG[i].lerr # Nil THEN smG[i].lerr ELSE smErr)
    /\ smG' = [smG EXCEPT ![i].pc = "done"]
    /\ UNCHANGED <<smN, smLaunched, smArrays, smCur, smPc, smSucc, smExitCode>>
    /\ UNCHANGED exceptSim

\* wg.Wait() after the loop, and the count of the zeros in eses.
SimWait ==
    /\ smPc = "launch"
    /\ smLaunched = smN
    /\ \A i \in 1..smN : smG[i].pc = "done"
    /\ smSucc' = Cardinality({i \in 1..smN : smArrays[smCur].elems[i] = 0})
    /\ smPc' = "exit"
    /\ UNCHANGED <<smN, smLaunched, smArrays, smCur, smG, smEs, smErr, smExitCode>>
    /\ UNCHANGED exceptSim

\* exit(es, fileName, *fileArg, err)
SimExit ==
    /\ smPc = "exit"
    /\ smExitCode' = ExitCode(smEs, smErr)
    /\ smPc' = "exited"
    /\ UNCHANGED <<smN, smLaunched, smArrays, smCur, smG, smEs, smErr, smSucc>>
    /\ UNCHANGED exceptSim

SimNext ==
    \/ SimLaunch
    \/ \E i \in 1..smN : SimStartReturn(i)
    \/ \E i \in 1..smN : SimLoad(i)
    \/ \E i \in 1..smN : SimStore(i)
    \/ \E i \in 1..smN : SimFinish(i)
    \/ SimWait
    \/ SimExit

SimSpec == SimInit /\ [][SimNext]_vars

(***************************************************************************)
(* The file a phase opens                                                  *)
(***************************************************************************)

\* The phases whose function defers file.Close() after os.Open.
DefersClose == {"direct"}

\* The file when the phase returns: the deferred Close runs if the phase
\* has one and the file was opened.
FileAtReturn(p, file) ==
    IF p \in DefersClose /\ file = "open" THEN "closed" ELSE file

FileInit ==
    /\ VodInit
    /\ GeoIdle
    /\ DistIdle
    /\ PlaybackIdle
    /\ MainIdle
    /\ StartupIdle
    /\ LoginIdle
    /\ PollIdle
    /\ SimIdle
    /\ fPc = [p \in UploadPhases |-> 1]
    /\ fCtxDone = FALSE
    /\ fFile = [p \in UploadPhases |-> "none"]
    /\ fReturned = [p \in UploadPhases |-> FALSE]
    /\ fErr = [p \in UploadPhases |-> "nil"]

\* vt.Ctx is cancelled while a phase runs.
FileCtxCancel ==
    /\ \E p \in UploadPhases : ~fReturned[p]
    /\ ~fCtxDone
    /\ fCtxDone' = TRUE
    /\ UNCHANGED <<fPc, fFile, fReturned, fErr>>
    /\ UNCHANGED exceptFile

\* A call of phase p returned nil and the phase goes on; os.Open leaves the
\* file open.
FileCall(p) ==
    /\ ~fReturned[p]
    /\ fPc[p] < Len(PhaseSteps[p])
    /\ "nil" \in Outcomes(PhaseSteps[p][fPc[p]], fCtxDone)
    /\ fFile' = [fFile EXCEPT ![p] = IF PhaseSteps[p][fPc[p]] = "Open" THEN "open" ELSE @]
    /\ fPc' = [fPc EXCEPT ![p] = @ + 1]
    /\ UNCHANGED <<fCtxDone, fReturned, fErr>>
    /\ UNCHANGED exceptFile

\* A call of phase p returned an error and the phase returns.
FileFail(p) ==
    /\ ~fReturned[p]
    /\ \E cause \in Outcomes(PhaseSteps[p][fPc[p]], fCtxDone) \ {"nil"} :
          fErr' = [fErr EXCEPT ![p] = cause]
    /\ fFile' = [fFile EXCEPT ![p] = FileAtReturn(p, @)]
    /\ fReturned' = [fReturned EXCEPT ![p] = TRUE]
    /\ UNCHANGED <<fPc, fCtxDone>>
    /\ UNCHANGED exceptFile

\* The last call of phase p returned nil and the phase returns nil.
FileSucceed(p) ==
    /\ ~fReturned[p]
    /\ fPc[p] = Len(PhaseSteps[p])
    /\ "nil" \in Outcomes(PhaseSteps[p][fPc[p]], fCtxDone)
    /\ fFile' = [fFile EXCEPT ![p] = FileAtReturn(p, @)]
    /\ fReturned' = [fReturned EXCEPT ![p] = TRUE]
    /\ UNCHANGED <<fPc, fCtxDone, fErr>>
    /\ UNCHANGED exceptFile

FileNext ==
    \/ FileCtxCancel
    \/ \E p \in UploadPhases : FileCall(p)
    \/ \E p \in UploadPhases : FileFail(p)
    \/ \E p \in UploadPhases : FileSucceed(p)

FileSpec == FileInit /\ [][FileNext]_vars

(***************************************************************************)
(* Properties of vodTester.Start                                           *)
(***************************************************************************)

Returned == mainPc = "Returned"

\* The phases that returned an error.
Failed == {p \in PhaseSet : phasePc[p] = PhaseDone /\ phaseErr[p] # Nil}

\* The first phase, in order of return, that returned an error.
RECURSIVE FirstFailedIn(_)
FirstFailedIn(order) ==
    IF order = <<>> THEN "none"
    ELSE IF phaseErr[Head(order)] # Nil THEN Head(order)
    ELSE FirstFailedIn(Tail(order))

\* C1: Start returns nil if and only if every one of the three phases
\* returned nil.
C1_NilIffAllPhasesNil ==
    Returned => (startRet = Nil <=> \A p \in PhaseSet : phaseErr[p] = Nil)

C1_Witness ==
    /\ Returned
    /\ startRet = Nil
    /\ \A p \in PhaseSet : phasePc[p] = PhaseDone /\ phaseErr[p] = Nil

C3_ReturnsAfterAllPhases ==
    mainPc \in {"Defer", "Returned"} => \A p \in PhaseSet : phasePc[p] = PhaseDone

C3_Witness ==
    /\ Returned
    /\ Len(completed) = Len(Phases)
    /\ phaseErr[completed[1]] # Nil
    /\ \E p \in PhaseSet : phaseErr[p].cause = "canceled"

C5_CancellationOnlyDownward ==
    /\ [](gctx => vtCtx /\ egCtx)
    /\ [][gctx' # gctx => ParentCancel]_vars

C5_Witness ==
    /\ Returned
    /\ egErr # Nil
    /\ extCancels > 0
    /\ watcherPc = "finished"
    /\ ~gctx

\* C6: when Start has returned, the three phase goroutines and the goroutine
\* that waits on egCtx.Done() and calls Cancel have all finished.
C6_NoGoroutineLeft ==
    Returned =>
        /\ \A p \in PhaseSet : phasePc[p] = PhaseDone
        /\ watcherPc = "finished"

(***************************************************************************)
(* Properties of getClosestSerfNodes                                       *)
(***************************************************************************)

GeoDone == geoPc = "done"

\* The distance of a member from the origin.
MemberDistance(m) ==
    getDistance(origin[1], origin[2], ParseFloat(m.latitude), ParseFloat(m.longitude))

\* How often a member occurs in the returned list.
Occurrences(m) == Cardinality({i \in DOMAIN returnMembers : returnMembers[i] = m})

InResult(m) == Occurrences(m) > 0

WellFormed(tag) == tag # "x"

\* Two members are at the same place: their tags are numbers and the numbers
\* are equal.
SameLocation(m1, m2) ==
    /\ WellFormed(m1.latitude) /\ WellFormed(m2.latitude)
    /\ ParseFloat(m1.latitude) = ParseFloat(m2.latitude)
    /\ ParseFloat(m1.longitude) = ParseFloat(m2.longitude)

\* C7: the returned members are ordered by non-decreasing distance from the
\* origin: no member comes before one that is strictly nearer.
C7_SortedByDistance ==
    GeoDone =>
        \A i, j \in DOMAIN returnMembers :
            i < j =>
                LET di == MemberDistance(returnMembers[i])
                    dj == MemberDistance(returnMembers[j])
                IN  ~(di # NaN /\ dj # NaN /\ dj < di)

C9_CountBound ==
    GeoDone =>
        /\ Len(serfMembers) >= selectNodeCount
              => Len(returnMembers) >= selectNodeCount
        /\ Len(serfMembers) < selectNodeCount
              => /\ Len(returnMembers) = Len(serfMembers)
                 /\ \A i \in DOMAIN serfMembers : Occurrences(serfMembers[i]) = 1

C9_Witness ==
    /\ GeoDone
    /\ selectNodeCount >= 2
    /\ Len(serfMembers) > selectNodeCount
    /\ Len(returnMembers) = selectNodeCount
    /\ \E g \in DOMAIN nodeDistances : Len(nodeDistances[g].Nodes) >= 2

\* C10 as stated: the returned list has at most selectNodeCount members.
C10_LengthAtMostCount ==
    GeoDone => Len(returnMembers) <= selectNodeCount

\* C10 as amended: the returned list is empty when selectNodeCount is not
\* positive; otherwise it has fewer than selectNodeCount members without its
\* last included group, so it is longer than selectNodeCount only by members
\* of that group.
C10_OvershootWithinLastGroup ==
    GeoDone =>
        IF selectNodeCount <= 0 \/ index = 0
        THEN returnMembers = <<>>
        ELSE Len(returnMembers) - Len(nodeDistances[index].Nodes) < selectNodeCount

C10_Witness ==
    /\ GeoDone
    /\ selectNodeCount >= 1
    /\ index >= 2
    /\ Len(returnMembers) > selectNodeCount

\* A group whose latitude or longitude tag is not a number.
Malformed(group) ==
    \/ ~WellFormed(group.Nodes[1].latitude)
    \/ ~WellFormed(group.Nodes[1].longitude)

\* C11: a candidate whose latitude or longitude tag cannot be parsed has an
\* undefined distance and is ordered after every candidate with a well-formed
\* location.
C11_MalformedSortLast ==
    GeoDone =>
        \A g \in DOMAIN nodeDistances :
            Malformed(nodeDistances[g]) =>
                /\ nodeDistances[g].Distance = NaN
                /\ \A h \in DOMAIN nodeDistances :
                      ~Malformed(nodeDistances[h]) => h < g

\* C12: on an empty or nil candidate list the call returns an empty list, for
\* every count and origin.
C12_EmptyInEmptyOut ==
    GeoDone /\ Len(serfMembers) = 0 =>
        /\ returnMembers = <<>>
        /\ index = 0

C12_Witness ==
    /\ GeoDone
    /\ serfMembers = <<>>
    /\ ~serfNil
    /\ selectNodeCount > 0
    /\ origin = <<60, 0>>
    /\ returnMembers = <<>>

(***************************************************************************)
(* Properties of getDistance                                               *)
(***************************************************************************)

\* C13: two points one degree of latitude apart at the equator are about
\* 111 km apart, within 1%.
C13_OneDegreeIs111Km ==
    (/\ distPc = "done"
     /\ distArgs[1] = 0
     /\ distArgs[3] = 1
     /\ distArgs[2] = distArgs[4])
        => distance >= 110 /\ distance <= 112

(***************************************************************************)
(* Properties of vodTester.checkPlayback                                   *)
(***************************************************************************)

PlaybackDone == pbPc = "done"

HasHLS(sources) == \E i \in 1..Len(sources) : sources[i].Type = "HLS"

FirstHLS(sources) == CHOOSE i \in 1..Len(sources) :
    /\ sources[i].Type = "HLS"
    /\ \A j \in 1..(i - 1) : sources[j].Type # "HLS"

\* C14: when the asset's reported duration is not positive, checkPlayback
\* returns an error and makes no playback-info fetch and no manifest check.
C14_FailsFastWithoutDuration ==
    ("GetAsset" \in pbCalls /\ pbErr # "error getting asset" /\ pbDuration <= 0)
        => /\ PlaybackDone
           /\ pbErr \notin {"none", "nil"}
           /\ pbCalls = {"GetAsset"}

C14_Witness ==
    /\ PlaybackDone
    /\ pbDuration = 0
    /\ pbErr = "missing asset duration"

\* C15: when the playback description lists no HLS source, checkPlayback
\* returns an error without any manifest check; when it does check a
\* manifest, the url is that of the first HLS source listed.
C15_NoHLSIsAnError ==
    /\ ("GetPlaybackInfo" \in pbCalls /\ pbErr # "error getting playback info"
            /\ ~HasHLS(pbSources))
        => /\ PlaybackDone
           /\ pbErr \notin {"none", "nil"}
           /\ "CheckStats" \notin pbCalls
    /\ "CheckStats" \in pbCalls
        => /\ HasHLS(pbSources)
           /\ pbUrl = pbSources[FirstHLS(pbSources)].Url

C15_Witness ==
    /\ PlaybackDone
    /\ Len(pbSources) = 2
    /\ ~HasHLS(pbSources)
    /\ pbErr = "no HLS source found in playback info"

\* C16: the manifest is polled until more than one rendition shows or the
\* maximum wait has passed; checkPlayback fails with the insufficient-renditions
\* error only if no poll showed more than one rendition, and returns nil only
\* if one did.
C16_PollsForRenditions ==
    /\ (PlaybackDone /\ pbErr = "no transcoded renditions found in playlist")
        => /\ pbPolls = MaxManifestPolls
           /\ \A n \in pbSeen : n <= 1
    /\ (PlaybackDone /\ pbErr = "nil")
        => \E n \in pbSeen : n > 1
    /\ (pbPc = "CheckStats" /\ pbPolls > 0) => \A n \in pbSeen : n <= 1

C16_Witness ==
    /\ PlaybackDone
    /\ pbPolls = MaxManifestPolls
    /\ pbSeen = {-1, 1}
    /\ pbErr = "no transcoded renditions found in playlist"

(***************************************************************************)
(* Properties of the VOD phases                                            *)
(***************************************************************************)

\* The position of checkPlayback among the calls of phase p.
CheckPos(p) == CHOOSE i \in 1..Len(PhaseSteps[p]) : PhaseSteps[p][i] = "checkPlayback"

\* Phase p reaches checkPlayback only from a task wait that returned nil.
CheckAfterWait(p) ==
    (phasePc'[p] # phasePc[p] /\ phasePc'[p] = CheckPos(p))
        => /\ phasePc[p] >= 1
           /\ PhaseSteps[p][phasePc[p]] = "WaitTaskProcessing"

\* Phase p returns nil only once checkPlayback has returned nil.
SuccessAfterCheck(p) ==
    (phasePc[p] # PhaseDone /\ phasePc'[p] = PhaseDone /\ phaseErr'[p] = Nil)
        => phasePc[p] >= CheckPos(p)

\* Phase p does not fail once checkPlayback has returned nil.
NoFailAfterCheck(p) ==
    (phasePc[p] > CheckPos(p) /\ phasePc[p] < PhaseDone /\ phasePc'[p] = PhaseDone)
        => phaseErr'[p] = Nil

\* C17 as stated: in every phase checkPlayback follows a successful task
\* wait, success requires that checkPlayback returned nil, and no later call
\* of the phase fails it.
C17_TerminalInEveryPhase ==
    [][\A p \in PhaseSet :
          CheckAfterWait(p) /\ SuccessAfterCheck(p) /\ NoFailAfterCheck(p)]_vars

\* C17: in every phase checkPlayback follows a successful task wait and
\* success requires that checkPlayback returned nil; it is the last call of
\* the direct and the resumable upload phases, while the url phase goes on
\* to export the asset and wait for the export, either of which can fail it.
C17_TerminalInUploadPhases ==
    [][/\ \A p \in PhaseSet : CheckAfterWait(p) /\ SuccessAfterCheck(p)
       /\ \A p \in PhaseSet \ {"url"} :
             NoFailAfterCheck(p) /\ CheckPos(p) = Len(PhaseSteps[p])]_vars

C17_Witness ==
    /\ phasePc["url"] = CheckPos("url") + 1
    /\ phasePc["direct"] = PhaseDone
    /\ phaseErr["direct"] = Nil

(***************************************************************************)
(* Properties of recordtester's exit                                       *)
(***************************************************************************)

Exited == mPc = "exited"

\* C18: a run that ends with the cancellation of its lifetime, whether
\* context.Canceled reaches exit() bare or wrapped by a phase error, exits
\* with code 0 and reports no failure.
C18_CancellationExitsZero ==
    (Exited /\ mainCtx /\ IsCancellation(mExitArgs[2]))
        => /\ mExitCode = 0
           /\ ~mFailureLogged

\* C19 as stated: a single run whose Start returned a non-nil error that is
\* not a cancellation exits with a non-zero code.
C19_ErrorExitsNonZero ==
    (Exited /\ mMode = "single" /\ mExitArgs[2] # Nil /\ ~IsCancellation(mExitArgs[2]))
        => mExitCode # 0

\* C19: a single run whose Start returned a non-nil error that is not a
\* cancellation prints the error and exits with the code Start returned
\* with it, which is non-zero exactly when that code is, and then the
\* failure is logged.
C19_ErrorExitsWithStartCode ==
    (Exited /\ mMode = "single" /\ mExitArgs[2] # Nil /\ ~IsCancellation(mExitArgs[2]))
        => /\ mExitCode = mExitArgs[1]
           /\ mErrorPrinted
           /\ mFailureLogged <=> mExitCode # 0

C19_Witness ==
    /\ Exited
    /\ mMode = "single"
    /\ mExitArgs = <<0, PhaseError("record", "error")>>
    /\ mExitCode = 0

\* C20: a continuous run exits with code 0 whatever its enabled testers
\* returned, and not before each of them has returned.
C20_ContinuousExitsZero ==
    /\ (mMode = "continuous" /\ mPc \in {"exit", "exited"})
          => \A t \in mEnabled : mTesterErr[t] # Running
    /\ (mMode = "continuous" /\ Exited)
          => /\ mExitCode = 0
             /\ ~mFailureLogged

C20_Witness ==
    /\ Exited
    /\ mMode = "continuous"
    /\ mEnabled = Testers
    /\ mTesterErr["live"] = PhaseError("live", "error")
    /\ mTesterErr["vod"] = Nil
    /\ mTesterErr["transcode"] = PhaseError("transcode", "canceled")
    /\ mExitCode = 0

(***************************************************************************)
(* Properties of the continuous run                                        *)
(***************************************************************************)

\* C21: the lifetime of a continuous tester that is still running is
\* cancelled only from outside (the signal goroutine's gcancel), never
\* because a sibling tester returned an error.
C21_SiblingErrorDoesNotCancel ==
    (mMode = "continuous" /\ mEgCtx /\ \E t \in mEnabled : mTesterErr[t] = Running)
        => mainCtx

(***************************************************************************)
(* Properties of main's startup                                            *)
(***************************************************************************)

ConfigValid ==
    suCfg.file /\ suCfg.pause /\ suCfg.testDur /\ suCfg.apiToken /\ suCfg.serf # "noaddr"

\* C22: with an invalid parameter the process ends during the validation:
\* it makes no call to the serf agent or the hosted API, creates no tester
\* and never gets past the startup.
C22_ConfigErrorBeforeAnyCall ==
    ~ConfigValid
        => /\ suCalls = {}
           /\ suPc <= Len(StartupSteps)
           /\ suExit \in {-1, 1, 255}

C22_Witness ==
    /\ suCfg = [file |-> TRUE, pause |-> TRUE, testDur |-> TRUE, apiToken |-> TRUE,
                serf |-> "noaddr"]
    /\ suExit = 255
    /\ suCalls = {}

(***************************************************************************)
(* Properties of ensureLoggedIn                                            *)
(***************************************************************************)

\* C23: every attempt but the last failed with a network error, ended before
\* the timeout had elapsed and was followed by the next attempt at least
\* one second later; ensureLoggedIn returns only after a successful Login
\* and makes no attempt after a non-network error; the number of attempts
\* is bounded by the timeout.
C23_BoundedLoginRetry ==
    /\ \A i \in 1..(Len(lgLog) - 1) :
          /\ lgLog[i].outcome = "net"
          /\ lgLog[i].end < lgTimeout
          /\ lgLog[i + 1].start >= lgLog[i].end + RetryDelay
    /\ lgPc = "returned" => lgLog[Len(lgLog)].outcome = "ok"
    /\ lgPc = "fatal" => lgLog[Len(lgLog)].outcome # "ok"
    /\ lgPc = "login" => \A i \in 1..Len(lgLog) : lgLog[i].outcome = "net"
    /\ Len(lgLog) <= (lgTimeout \div RetryDelay) + 1

C23_Witness ==
    /\ lgPc = "fatal"
    /\ Len(lgLog) = 2
    /\ lgLog[1].outcome = "net"
    /\ lgLog[2].outcome = "net"
    /\ lgLog[2].end > lgTimeout

(***************************************************************************)
(* Properties of the task wait                                             *)
(***************************************************************************)

Mutating == {"UploadViaURL", "ExportAsset", "RequestUpload", "UploadAsset",
             "ResumableUpload"}

\* Phase p goes through its calls in order, one at a time, or returns.
OneCallAtATime(p) ==
    phasePc'[p] # phasePc[p]
        => /\ phasePc[p] # PhaseDone
           /\ phasePc'[p] \in {phasePc[p] + 1, PhaseDone}

\* An error of phase p is set when p returns, names p, and stays.
ErrorEndsPhase(p) ==
    /\ phaseErr'[p] # phaseErr[p] => phaseErr[p] = Nil /\ phasePc[p] \in 1..Len(PhaseSteps[p])
    /\ phaseErr'[p] # Nil => phasePc'[p] = PhaseDone /\ phaseErr'[p].phase = p

\* C25: a phase makes each of its calls at most once, in program order, no
\* mutating call occurs twice among them, and the first call that fails ends
\* the phase with that error: no call is repeated and none follows.
C25_NoRetryInPhase ==
    [][\A p \in PhaseSet :
          /\ OneCallAtATime(p)
          /\ ErrorEndsPhase(p)
          /\ \A i, j \in 1..Len(PhaseSteps[p]) :
                (PhaseSteps[p][i] \in Mutating /\ PhaseSteps[p][i] = PhaseSteps[p][j])
                    => i = j]_vars

C25_Witness ==
    /\ phasePc["direct"] = PhaseDone
    /\ phaseErr["direct"] = PhaseError("direct", "error")
    /\ phasePc["url"] \in 1..Len(PhaseSteps["url"])
    /\ phaseErr["url"] = Nil

(***************************************************************************)
(* Properties of Start under cancellation                                  *)
(***************************************************************************)

\* The calls that are given no context and so cannot end early.
Uninterruptible == {"UploadViaURL", "ExportAsset", "RequestUpload", "Open",
                    "ResumableUpload"}

\* Phase p returns a cancellation only after vt.Ctx was cancelled, and never
\* from a call that is given no context.
CancelSeenAtCtxCall(p) ==
    (phaseErr'[p] # phaseErr[p] /\ phaseErr'[p].cause = "canceled")
        => /\ vtCtx
           /\ PhaseSteps[p][phasePc[p]] \notin Uninterruptible

\* C26: once vt.Ctx is cancelled Start eventually returns, every call of
\* its phases returning; a phase returns the cancellation only from a call
\* that takes vt.Ctx, so the resumable upload, which takes none, ends first.
C26_CancelledStartReturns ==
    /\ vtCtx ~> (mainPc = "Returned")
    /\ [][\A p \in PhaseSet : CancelSeenAtCtxCall(p)]_vars

C26_Witness ==
    /\ vtCtx
    /\ mainPc = "Wait"
    /\ phasePc["resumable"] = 3
    /\ phasePc["direct"] = PhaseDone
    /\ phaseErr["direct"] = PhaseError("direct", "canceled")

(***************************************************************************)
(* Properties of the selection loop                                        *)
(***************************************************************************)

\* The number of candidates in the first k groups.
RECURSIVE GroupTotal(_)
GroupTotal(k) ==
    IF k = 0 THEN 0 ELSE GroupTotal(k - 1) + Len(nodeDistances[k].Nodes)

\* C27: the result is made of the first index groups; each of them was
\* included while fewer than selectNodeCount candidates had been accumulated,
\* so the groups before the last included one hold fewer than
\* selectNodeCount candidates and an overshoot comes from the last one only.
C27_OvershootOnlyByLastGroup ==
    GeoDone =>
        /\ index \in 0..Len(nodeDistances)
        /\ Len(returnMembers) = GroupTotal(index)
        /\ \A k \in 1..index : GroupTotal(k - 1) < selectNodeCount

C27_Witness ==
    /\ GeoDone
    /\ index >= 1
    /\ index < Len(nodeDistances)
    /\ Len(returnMembers) > selectNodeCount

(***************************************************************************)
(* Properties of the -sim run                                              *)
(***************************************************************************)

\* C28: after all testers finished, eses holds for each tester the code its
\* Start returned, the success count is the number of testers that returned
\* 0, and the process exits non-zero exactly when some tester returned a
\* non-zero code.
C28_NoResultLost ==
    smPc = "exited" =>
        /\ \A i \in 1..smN : smArrays[smCur].elems[i] = smG[i].les
        /\ smSucc = Cardinality({i \in 1..smN : smG[i].les = 0})
        /\ smExitCode # 0 <=> \E i \in 1..smN : smG[i].les # 0

(***************************************************************************)
(* Properties of the file a phase opens                                    *)
(***************************************************************************)

\* C29: when a phase has returned, with nil or with an error, the file it
\* opened is closed.
C29_FileClosedAtReturn ==
    \A p \in UploadPhases : fReturned[p] => fFile[p] # "open"

(***************************************************************************)
(* Properties of cleanup                                                   *)
(***************************************************************************)

\* C30: the file given by -file is never removed when it is itself the
\* resolved file; a local copy is gone once the process has exited; and a
\* cleanup that runs after another one changes nothing, whichever of the
\* signal goroutine and exit() comes first.
C30_CleanupOnlyTempCopy ==
    /\ [](~mTemp => mFileExists)
    /\ []((mPc = "exited" /\ mTemp) => ~mFileExists)
    /\ [][~mFileExists => ~mFileExists']_vars

C30_Witness ==
    /\ mPc = "exited"
    /\ mSigPc = "done"
    /\ ~mTemp
    /\ mFileExists

====
